---- MODULE Spec2Model ----
(***************************************************************************)
(* Conversation-record lifecycle of the Legal AI backend.                  *)
(*                                                                         *)
(* The state is the DynamoDB chat table (store), the S3 bucket of shared   *)
(* chats (s3), the wall clock read by datetime.now() (clock) and one       *)
(* request record per worker (rq).  A handler is cut into steps at its     *)
(* accesses to the table and the bucket; steps of different workers        *)
(* interleave.  The calls to the table and the bucket return; the calls    *)
(* to the generation gateway, the research service and the transcription   *)
(* service may raise.                                                      *)
(***************************************************************************)
EXTENDS Integers, Sequences, FiniteSets, TLC

\* ---------------------------------------------------------------- bounds
MaxWrites == 2     \* put_item / put_object calls made in one behaviour
MaxClock == 1      \* largest value the clock reaches
MaxPairs == 7      \* longest stored conversation of SpecContext, in pairs of turns

\* ------------------------------------------------------ program constants
TitleLen == 50        \* question[:50]
ContextWindow == 10   \* conversation[-10:]

\* ------------------------------------------------------------ input sets
ProcOrder == <<"p1", "p2">>
Procs == {ProcOrder[i] : i \in 1..Len(ProcOrder)}
Users == {"u1", "u2"}
Anonymous == "<anon>"      \* caller of a route that takes no credential
NoChatId == "<none>"       \* chat_id = None
Invalid == "<invalid>"     \* uuid.UUID(...) raised ValueError

\* Identifiers in canonical spelling, in DynamoDB sort-key order.
IdPool == <<"c1", "c2", "c3", "c4">>
GeneratedIds == {IdPool[i] : i \in 1..Len(IdPool)}
\* A well-formed UUID that uuid4 never returns: the guess of a client.
UnknownId == "c0"
CanonicalIds == GeneratedIds \cup {UnknownId}
\* "C1" stands for a spelling uuid.UUID accepts without being the canonical
\* str() form (upper case, braces, urn:uuid: prefix, no hyphens);
\* "zz" stands for a string that is not a UUID.
ChatIdInputs == {NoChatId, "", "zz", "c0", "C1", "c1", "c2"}

Chars(n, ch) == [i \in 1..n |-> ch]
ShortQuestion == Chars(2, "q")
LongQuestion == Chars(TitleLen + 1, "l")
Questions == {ShortQuestion, LongQuestion}
AnswerText == <<"a">>
EmptyText == <<>>

AskHandlers == {"chat_basic", "chat_advanced", "chat_hinglish"}

\* ------------------------------------------------------- pure functions
Max(a, b) == IF a >= b THEN a ELSE b
Min(a, b) == IF a <= b THEN a ELSE b

\* str(uuid.UUID(chat_id)): the canonical spelling, or Invalid on ValueError.
UUIDParse(s) ==
    IF s \in CanonicalIds THEN s
    ELSE IF s = "C1" THEN "c1"
    ELSE Invalid

\* Python truthiness of an Optional[str]: None and "" are falsy.
Truthy(chat_id) == chat_id # NoChatId /\ chat_id # ""

\* question[:50] + ("..." if len(question) > 50 else "")
Ellipsis == <<".", ".", ".">>
TitleMarkedFromLimit(question) ==
    SubSeq(question, 1, Min(Len(question), TitleLen))
        \o (IF Len(question) >= TitleLen THEN Ellipsis ELSE <<>>)
Title(question) ==
    SubSeq(question, 1, Min(Len(question), TitleLen))
        \o (IF Len(question) > TitleLen THEN Ellipsis ELSE <<>>)

Turn(role, content, ts) == [role |-> role, content |-> content, timestamp |-> ts]

\* The conversation of a new chat.
NewConversation(question, answer, current_time) ==
    << Turn("user", question, current_time),
       Turn("assistant", answer, current_time) >>

\* The two dictionaries save_or_update_chat appends to a stored conversation.
AppendTurnsSwapped(conversation, question, answer, current_time) ==
    conversation \o << Turn("assistant", answer, current_time),
                       Turn("user", question, current_time) >>
AppendTurnsUserOnly(conversation, question, answer, current_time) ==
    conversation \o << Turn("user", question, current_time) >>
AppendTurns(conversation, question, answer, current_time) ==
    conversation \o << Turn("user", question, current_time),
                       Turn("assistant", answer, current_time) >>

\* chat_item of save_or_update_chat.
ChatItemFreshCreated(user_id, chat_id, title, conversation, current_time, created) ==
    [user_id |-> user_id, chat_id |-> chat_id, title |-> title,
     conversation |-> conversation, updated_at |-> current_time,
     created_at |-> current_time]
ChatItem(user_id, chat_id, title, conversation, current_time, created) ==
    [user_id |-> user_id, chat_id |-> chat_id, title |-> title,
     conversation |-> conversation, updated_at |-> current_time,
     created_at |-> created]

\* What save_or_update_chat returns.
SaveResult(item) ==
    [chat_id |-> item.chat_id, title |-> item.title, updated_at |-> item.updated_at]

\* "User: " + content for the user messages of a conversation, in order.
UserPrefix == <<"U", "s", "e", "r", ":", " ">>
RECURSIVE FormatUserTurns(_)
FormatUserTurns(conv) ==
    IF conv = <<>> THEN <<>>
    ELSE (IF Head(conv).role = "user"
             THEN << UserPrefix \o Head(conv).content >> ELSE <<>>)
         \o FormatUserTurns(Tail(conv))

\* conversation[-10:]
LastTurnsAll(conv) == conv
LastTurns(conv) == SubSeq(conv, Max(1, Len(conv) - ContextWindow + 1), Len(conv))

\* shared_data of share_chat.
SharedDataEmptied(chat_data, shared_at, user_id) ==
    [chat_id |-> chat_data.chat_id, title |-> chat_data.title,
     conversation |-> <<>>,
     shared_at |-> shared_at, shared_by |-> user_id]
SharedData(chat_data, shared_at, user_id) ==
    [chat_id |-> chat_data.chat_id, title |-> chat_data.title,
     conversation |-> chat_data.conversation,
     shared_at |-> shared_at, shared_by |-> user_id]

\* ------------------------------------------------------------ the state
VARIABLES store, s3, clock, rq, nwrites
vars == <<store, s3, clock, rq, nwrites>>

\* chat_table.get_item(Key={user_id, chat_id}): <<item>> or <<>>.
GetItemAnyOwner(st, user_id, chat_id) ==
    IF \E k \in DOMAIN st : k[2] = chat_id
    THEN << st[CHOOSE k \in DOMAIN st : k[2] = chat_id] >>
    ELSE <<>>
GetItem(st, user_id, chat_id) ==
    IF <<user_id, chat_id>> \in DOMAIN st THEN << st[<<user_id, chat_id>>] >> ELSE <<>>

\* chat_table.put_item(Item=item): whole-record overwrite under the item's key.
PutItemMerging(st, item) ==
    LET key == <<item.user_id, item.chat_id>>
        n == Len(item.conversation)
    IN  [k \in DOMAIN st \cup {key} |->
            IF k # key THEN st[k]
            ELSE IF key \in DOMAIN st
                 THEN [item EXCEPT !.conversation =
                          st[key].conversation \o SubSeq(item.conversation, n - 1, n)]
                 ELSE item]
PutItem(st, item) ==
    [k \in DOMAIN st \cup {<<item.user_id, item.chat_id>>} |->
        IF k = <<item.user_id, item.chat_id>> THEN item ELSE st[k]]

\* s3_client.put_object / get_object under chats/{chat_id}.json
PutObject(bucket, key, data) ==
    [k \in DOMAIN bucket \cup {key} |-> IF k = key THEN data ELSE bucket[k]]
GetObject(bucket, key) == IF key \in DOMAIN bucket THEN << bucket[key] >> ELSE <<>>

\* uuid.uuid4() never repeats: the first identifier not yet in the table.
UsedIds(st) == {k[2] : k \in DOMAIN st}
uuid4(st) ==
    IdPool[CHOOSE i \in 1..Len(IdPool) :
              /\ IdPool[i] \notin UsedIds(st)
              /\ \A j \in 1..(i - 1) : IdPool[j] \in UsedIds(st)]

\* The chat_id values a client sends: an identifier uuid4 has returned is
\* known to clients only once a record has it; a client cannot name an
\* identifier that uuid4 returns later.
ClientChatIds(st) ==
    {cid \in ChatIdInputs :
        UUIDParse(cid) \in GeneratedIds => UUIDParse(cid) \in UsedIds(st)}

\* Results of a call: a value, an HTTPException, or any other exception.
Ok(v) == [kind |-> "ok", status |-> 200, value |-> v]
Http(status) == [kind |-> "http", status |-> status, value |-> <<>>]
Exc == [kind |-> "exc", status |-> 0, value |-> <<>>]

\* user_id attribute of the item a call returned.
OwnersOf(res) == IF res.kind = "ok" THEN {res.value[1].user_id} ELSE {}

\* get_chat_by_id: the item, or 404 when it is missing.  DynamoDB rejects an
\* empty string as a key value (ValidationException), which the except clause
\* turns into a 500.
get_chat_by_id_unkeyed(st, user_id, chat_id) ==
    IF \E k \in DOMAIN st : k[2] = chat_id
    THEN Ok(<< st[CHOOSE k \in DOMAIN st : k[2] = chat_id] >>)
    ELSE Http(404)
get_chat_by_id(st, user_id, chat_id) ==
    IF chat_id = "" THEN Http(500)
    ELSE IF GetItem(st, user_id, chat_id) = <<>> THEN Http(404)
    ELSE Ok(GetItem(st, user_id, chat_id))

\* validate_chat_id: [res |-> result, reads |-> table reads made].
validate_chat_id_unchecked(st, chat_id, user_id) ==
    IF chat_id = NoChatId THEN [res |-> Ok(NoChatId), reads |-> 0]
    ELSE IF UUIDParse(chat_id) = Invalid THEN [res |-> Ok(chat_id), reads |-> 0]
    ELSE [res |-> Ok(UUIDParse(chat_id)), reads |-> 0]
validate_chat_id(st, chat_id, user_id) ==
    IF chat_id = NoChatId THEN [res |-> Ok(NoChatId), reads |-> 0]
    ELSE IF UUIDParse(chat_id) = Invalid THEN [res |-> Http(400), reads |-> 0]
    ELSE LET r == get_chat_by_id(st, user_id, UUIDParse(chat_id))
         IN  [res |-> IF r.kind = "ok" THEN Ok(UUIDParse(chat_id))
                      ELSE IF r.status = 404 THEN Http(400)
                      ELSE r,
              reads |-> 1]

\* get_formatted_previous_convo: [res |-> the context, reads |-> table reads
\* made, owners |-> user_id of the item read]; a 404 gives the empty context.
get_formatted_previous_convo(st, user_id, chat_id) ==
    IF Truthy(chat_id)
    THEN LET g == get_chat_by_id(st, user_id, chat_id)
         IN  [res |-> IF g.kind = "ok"
                      THEN Ok(FormatUserTurns(g.value[1].conversation))
                      ELSE IF g.status = 404 THEN Ok(<<>>)
                      ELSE g,
              reads |-> 1, owners |-> OwnersOf(g)]
    ELSE [res |-> Ok(<<>>), reads |-> 0, owners |-> {}]

\* The items of one user in sort-key order, as chat_table.query returns them
\* in one page (the code reads no LastEvaluatedKey: the items of the user are
\* taken to fit DynamoDB's 1 MB page).
RECURSIVE QueryFrom(_, _, _)
QueryFrom(st, user_id, i) ==
    IF i > Len(IdPool) THEN <<>>
    ELSE GetItem(st, user_id, IdPool[i]) \o QueryFrom(st, user_id, i + 1)
Query(st, user_id) == QueryFrom(st, user_id, 1)

\* ProjectionExpression="chat_id, title, updated_at, created_at"
Project(item) ==
    [chat_id |-> item.chat_id, title |-> item.title,
     updated_at |-> item.updated_at, created_at |-> item.created_at]

\* sorted(items, key=updated_at, reverse=True): stable, equal keys keep their order.
RECURSIVE InsertDesc(_, _)
InsertDesc(sorted, x) ==
    IF sorted = <<>> THEN <<x>>
    ELSE IF Head(sorted).updated_at >= x.updated_at
         THEN <<Head(sorted)>> \o InsertDesc(Tail(sorted), x)
         ELSE <<x>> \o sorted
SortDescSkipped(items) == items
RECURSIVE SortDesc(_)
SortDesc(items) ==
    IF items = <<>> THEN <<>>
    ELSE InsertDesc(SortDesc(SubSeq(items, 1, Len(items) - 1)), items[Len(items)])

get_chat_titles(st, user_id) ==
    SortDesc([i \in 1..Len(Query(st, user_id)) |-> Project(Query(st, user_id)[i])])

\* list_chat_titles: every entry gets chat_type 'basic' when it has none.
WithChatType(e) ==
    [chat_id |-> e.chat_id, title |-> e.title, updated_at |-> e.updated_at,
     created_at |-> e.created_at, chat_type |-> "basic"]

\* The except clauses at the handler boundaries: the status the caller sees.
\* chat_basic, chat_advanced, chat_hinglish, speech_to_text:
\*   except Exception as e: raise HTTPException(status_code=500, ...)
AskBoundary(e) == 500
\* share_chat: if isinstance(e, HTTPException): raise e, else 500
ShareBoundary(e) == IF e.kind = "http" THEN e.status ELSE 500
\* save_chat, list_chat_titles, get_chat_detail have no try block: FastAPI
\* answers an HTTPException with its status and anything else with 500.
FrameworkBoundary(e) == IF e.kind = "http" THEN e.status ELSE 500

Boundary(h, e) ==
    IF h \in AskHandlers \cup {"speech_to_text"} THEN AskBoundary(e)
    ELSE IF h = "share_chat" THEN ShareBoundary(e)
    ELSE FrameworkBoundary(e)

\* except Exception around get_item in save_or_update_chat: whatever was
\* raised inside, the 404 of a missing item included, leaves as a 500.
SaveGuard(e) == Http(500)

\* ------------------------------------------------------ request records
NoBody == [none |-> TRUE]
ErrorBody == [detail |-> "error"]
IdleReq ==
    [pc |-> "idle", handler |-> "none", user_id |-> Anonymous,
     chat_id |-> NoChatId, question |-> <<>>, answer |-> <<>>,
     validated_chat_id |-> NoChatId, previous_convo |-> <<>>,
     chat_data |-> <<>>, current_time |-> 0,
     status |-> 0, body |-> NoBody,
     \* history of the request, kept for the properties below:
     \* table reads and writes made, status of the HTTPException that reached
     \* the handler boundary, a research or transcription call raised, the
     \* generation failed, user_id of the items read, the item written
     reads |-> 0, writes |-> 0, raised |-> 0, fault |-> FALSE, genfail |-> FALSE,
     owners |-> {}, put |-> <<>>]

\* A table left by an earlier request: one chat of u1, two turns.
SeedItem ==
    ChatItem("u1", "c1", Title(ShortQuestion),
             NewConversation(ShortQuestion, AnswerText, 0), 0, 0)
EmptyTable == [k \in {} |-> NoBody]
EmptyBucket == [k \in {} |-> NoBody]
SeedTable == PutItem(EmptyTable, SeedItem)

\* The service starts on an empty table and an empty bucket.
Init ==
    /\ store = EmptyTable
    /\ s3 = EmptyBucket
    /\ clock = 0
    /\ rq = [p \in Procs |-> IdleReq]
    /\ nwrites = 0

\* The service starts on the table an earlier run left.
InitSeeded ==
    /\ store = SeedTable
    /\ s3 = EmptyBucket
    /\ clock = 0
    /\ rq = [p \in Procs |-> IdleReq]
    /\ nwrites = 0

\* The service starts on the table and the bucket an earlier run left: the
\* seed chat, and the snapshot its owner shared.
SeedSnapshot == SharedData(SeedItem, 0, SeedItem.user_id)
InitShared ==
    /\ store = SeedTable
    /\ s3 = PutObject(EmptyBucket, SeedItem.chat_id, SeedSnapshot)
    /\ clock = 0
    /\ rq = [p \in Procs |-> IdleReq]
    /\ nwrites = 0

\* ---------------------------------------------------------- scheduling
\* Steps that touch neither the table, the bucket nor the clock commute with
\* the steps of the other workers, so a worker is not interrupted
\*   - between its response and the delivery of it (pc = "done"),
\*   - in a request without chat_id, which makes its only access, the
\*     put_item of the new record, at its end, and
\*   - in a save_chat whose chat_id is no identifier uuid4 returns: no item
\*     has such a key, both its reads find nothing.
Uninterruptible(r) ==
    \/ r.pc = "done"
    \/ r.pc \in {"generate", "save_new"} /\ ~Truthy(r.validated_chat_id)
    \/ r.pc = "save_get" /\ r.validated_chat_id \notin GeneratedIds

MayStep(p) == \A p2 \in Procs \ {p} : ~Uninterruptible(rq[p2])
Quiet == \A p \in Procs : ~Uninterruptible(rq[p])

\* Workers are interchangeable: a request goes to the first idle worker.
FirstIdle(p) ==
    /\ rq[p].pc = "idle"
    /\ \A i \in 1..Len(ProcOrder) :
          ProcOrder[i] = p => \A j \in 1..(i - 1) : rq[ProcOrder[j]].pc # "idle"

InFlight == {p \in Procs : rq[p].pc \notin {"idle", "done"}}

\* A request that cannot write changes nothing: it is taken when no other
\* request is in flight.  (A request that has not written yet has had no
\* effect, so every content of the table and the bucket is also reached with
\* all workers idle.)
Accepting(p) == Quiet /\ FirstIdle(p) /\ InFlight = {}

\* A request that may write is accepted while the writes made and the
\* writers in flight stay below MaxWrites.
AcceptingWriter(p) ==
    Quiet /\ FirstIdle(p) /\ nwrites + Cardinality(InFlight) < MaxWrites

NewReq(h, u, cid, q, a) ==
    [IdleReq EXCEPT !.handler = h, !.user_id = u, !.chat_id = cid,
                    !.question = q, !.answer = a]

\* The request is over: the response and the history stay until delivery.
Respond(r, status, body, raised) ==
    [IdleReq EXCEPT !.pc = "done", !.handler = r.handler, !.user_id = r.user_id,
                    !.chat_id = r.chat_id, !.question = r.question,
                    !.answer = r.answer, !.chat_data = r.chat_data,
                    !.status = status, !.body = body,
                    !.reads = r.reads, !.writes = r.writes, !.raised = raised,
                    !.fault = r.fault, !.genfail = r.genfail,
                    !.owners = r.owners, !.put = r.put]

\* An exception e leaves the handler through its boundary.
Fail(r, e) ==
    Respond(r, Boundary(r.handler, e), ErrorBody,
            IF e.kind = "http" THEN e.status ELSE 0)

Step(p, r) == rq' = [rq EXCEPT ![p] = r]

\* ---------------------------------------------- the three ask handlers
\* chat_basic / chat_advanced / chat_hinglish up to and including
\* validate_chat_id.
AskValidate(p, h, u, cid, q) ==
    /\ AcceptingWriter(p)
    /\ LET v == validate_chat_id(store, cid, u)
           r == [NewReq(h, u, cid, q, <<>>) EXCEPT !.reads = v.reads]
       IN  IF v.res.kind = "ok"
           THEN Step(p, [r EXCEPT !.pc = "generate",
                                  !.validated_chat_id = v.res.value])
           ELSE InFlight = {} /\ Step(p, Fail(r, v.res))
    /\ UNCHANGED <<store, s3, clock, nwrites>>

\* chat_hinglish: the translation call.  Without choices the question itself
\* is used; an exception of the gateway ends the request.
\* chat_advanced / chat_hinglish: the research call.  A status other than 200
\* falls back to no previous cases; an exception of httpx ends the request.
\* "skip" is the outcome of a call the handler does not make.
TranslateOutcomes(h) ==
    IF h = "chat_hinglish" THEN {"text", "no_choices", "exception"} ELSE {"skip"}
ResearchOutcomes(h) ==
    IF h = "chat_basic" THEN {"skip"} ELSE {"200", "other", "exception"}

\* What the gateway call of the final completion does.
\*   exception        the call raises
\*   no_choices       completion.choices is empty, answer = None
\*   empty            the message content is ""
\*   text             a non-empty text (in chat_basic: text that is not JSON)
\*   json_not_object  chat_basic: JSON that is no object (.get raises)
\*   json_no_answer   chat_basic: a JSON object without the 'answer' field
\*   json_answer      chat_basic: a JSON object with the 'answer' field
GenOutcomes(h) ==
    {"exception", "no_choices", "empty", "text"}
        \cup (IF h = "chat_basic"
                 THEN {"json_not_object", "json_no_answer", "json_answer"}
                 ELSE {})

\* `if answer:` after answer = content if completion.choices else None
HasAnswerNotNone(o) == o \notin {"exception", "no_choices"}
HasAnswer(o) == o \notin {"exception", "no_choices", "empty"}

\* json.loads(answer) succeeds and yields an object
ParsesAsObject(o) == o \in {"json_no_answer", "json_answer"}

\* The answer text handed to save_or_update_chat:
\* answer_json.get("answer", "") in chat_basic, the content elsewhere.
AnswerFor(h, o) ==
    IF o = "empty" \/ (h = "chat_basic" /\ o = "json_no_answer")
    THEN EmptyText ELSE AnswerText

\* The value the handler returns after saving:
\* answer_json in chat_basic, {"answer": answer} elsewhere.
AskResponse(h, o) ==
    IF h = "chat_basic" /\ o = "json_no_answer"
    THEN [response |-> AnswerText]
    ELSE [answer |-> AnswerFor(h, o)]

\* The generation failures: the gateway raises in the translation or the
\* completion call, there are no choices, the answer is empty, or the answer
\* of chat_basic is no JSON object.
GenFailure(h, ot, o) ==
    \/ ot = "exception"
    \/ o \in {"exception", "no_choices", "empty"}
    \/ h = "chat_basic" /\ o \in {"text", "json_not_object"}

\* Entry into save_or_update_chat: current_time = datetime.now(), then the
\* branch on `if not chat_id`.
SaveEntry(chat_id) == IF Truthy(chat_id) THEN "save_get" ELSE "save_new"
SaveBegin(r, chat_id, now) ==
    [r EXCEPT !.pc = SaveEntry(chat_id), !.current_time = now]

\* The handler from get_formatted_previous_convo to the entry into
\* save_or_update_chat: the context is read from the table, then the
\* translation, research and completion calls are made (none of the three
\* touches the table or the bucket), then the clock is read.
AskGenerate(p, ot, ors, o) ==
    /\ MayStep(p)
    /\ rq[p].pc = "generate"
    /\ ot \in TranslateOutcomes(rq[p].handler)
    /\ ors \in ResearchOutcomes(rq[p].handler)
    /\ o \in GenOutcomes(rq[p].handler)
    /\ LET c == get_formatted_previous_convo(store, rq[p].user_id,
                                             rq[p].validated_chat_id)
           r == [rq[p] EXCEPT !.reads = @ + c.reads,
                              !.owners = @ \cup c.owners]
           rg == [r EXCEPT !.genfail = GenFailure(r.handler, ot, o)]
       IN  IF c.res.kind # "ok" THEN Step(p, Fail(r, c.res))
           ELSE IF ot = "exception"
           THEN Step(p, Fail([r EXCEPT !.genfail = TRUE], Exc))
           ELSE IF ors = "exception"
           THEN Step(p, Fail([r EXCEPT !.fault = TRUE], Exc))
           ELSE IF o = "exception" THEN Step(p, Fail(rg, Exc))
           ELSE IF ~HasAnswer(o) THEN Step(p, Fail(rg, Http(500)))
           ELSE IF r.handler = "chat_basic" /\ ~ParsesAsObject(o)
           THEN Step(p, Fail(rg, Exc))
           ELSE Step(p, SaveBegin([rg EXCEPT !.previous_convo = c.res.value,
                                             !.answer = AnswerFor(r.handler, o),
                                             !.body = AskResponse(r.handler, o)],
                                   r.validated_chat_id, clock))
    /\ UNCHANGED <<store, s3, clock, nwrites>>

\* ------------------------------------------------- save_or_update_chat
\* The handler's return value once save_or_update_chat returned:
\* save_chat returns its result, the ask handlers their answer.
ResponseAfterSave(r, item) ==
    IF r.handler = "save_chat" THEN SaveResult(item) ELSE r.body

\* Without chat_id: uuid4, title, new conversation, put_item.
SaveNew(p) ==
    /\ MayStep(p)
    /\ rq[p].pc = "save_new"
    /\ LET r == rq[p]
           item == ChatItem(r.user_id, uuid4(store), Title(r.question),
                            NewConversation(r.question, r.answer, r.current_time),
                            r.current_time, r.current_time)
       IN  /\ store' = PutItem(store, item)
           /\ Step(p, Respond([r EXCEPT !.writes = @ + 1, !.put = <<item>>],
                              200, ResponseAfterSave(r, item), 0))
    /\ nwrites' = nwrites + 1
    /\ UNCHANGED <<s3, clock>>

\* With chat_id: get_item; a missing item is a 404 that leaves as a 500.
SaveGet(p) ==
    /\ MayStep(p)
    /\ rq[p].pc = "save_get"
    /\ LET r == [rq[p] EXCEPT !.reads = @ + 1]
           got == GetItem(store, r.user_id, r.validated_chat_id)
       IN  IF got = <<>> THEN Step(p, Fail(r, SaveGuard(Http(404))))
           ELSE Step(p, [r EXCEPT !.pc = "save_put", !.chat_data = got,
                                  !.owners = @ \cup {got[1].user_id}])
    /\ UNCHANGED <<store, s3, clock, nwrites>>

\* With chat_id: the two turns are appended to the conversation read, the
\* title and created_at read are kept, put_item.
SavePut(p) ==
    /\ MayStep(p)
    /\ rq[p].pc = "save_put"
    /\ LET r == rq[p]
           old == r.chat_data[1]
           item == ChatItem(r.user_id, r.validated_chat_id, old.title,
                            AppendTurns(old.conversation, r.question, r.answer,
                                        r.current_time),
                            r.current_time, old.created_at)
       IN  /\ store' = PutItem(store, item)
           /\ Step(p, Respond([r EXCEPT !.writes = @ + 1, !.put = <<item>>],
                              200, ResponseAfterSave(r, item), 0))
    /\ nwrites' = nwrites + 1
    /\ UNCHANGED <<s3, clock>>

\* ------------------------------------------------------ chat-history/save
\* save_chat up to the entry into save_or_update_chat: the context is built
\* from the last ContextWindow turns when request.chat_id is truthy; the
\* chat_id goes to save_or_update_chat as the client sent it.
SaveChat(p, u, cid, q, a) ==
    /\ AcceptingWriter(p)
    /\ Truthy(cid) /\ cid \notin GeneratedIds => InFlight = {}
    /\ LET r == [NewReq("save_chat", u, cid, q, a) EXCEPT
                    !.validated_chat_id = cid]
       IN  IF Truthy(cid)
           THEN LET g == get_chat_by_id(store, u, cid)
                    r1 == [r EXCEPT !.reads = 1, !.owners = OwnersOf(g)]
                IN  IF g.kind = "ok"
                    THEN Step(p, SaveBegin([r1 EXCEPT !.previous_convo =
                                FormatUserTurns(LastTurns(g.value[1].conversation))],
                            cid, clock))
                    ELSE IF g.status = 404
                    THEN Step(p, SaveBegin(r1, cid, clock))
                    ELSE Step(p, Fail(r1, g))
           ELSE Step(p, SaveBegin(r, cid, clock))
    /\ UNCHANGED <<store, s3, clock, nwrites>>

\* ------------------------------------------------ reading the chat table
ListChatTitles(p, u) ==
    /\ Accepting(p)
    /\ LET items == Query(store, u)
           r == [NewReq("list_chat_titles", u, NoChatId, <<>>, <<>>) EXCEPT
                    !.reads = 1,
                    !.owners = {items[i].user_id : i \in 1..Len(items)}]
           titles == get_chat_titles(store, u)
       IN  Step(p, Respond(r, 200,
                [entries |-> [i \in 1..Len(titles) |-> WithChatType(titles[i])]], 0))
    /\ UNCHANGED <<store, s3, clock, nwrites>>

\* get_chat_detail: the whole record, looked up under the caller's user id.
GetChatDetail(p, u, cid) ==
    /\ Accepting(p)
    /\ cid # NoChatId /\ cid # ""     \* a path parameter is never empty
    /\ LET g == get_chat_by_id(store, u, cid)
           r == [NewReq("get_chat_detail", u, cid, <<>>, <<>>) EXCEPT
                    !.reads = 1, !.owners = OwnersOf(g)]
       IN  IF g.kind = "ok"
           THEN Step(p, Respond(r, 200, g.value[1], 0))
           ELSE Step(p, Fail(r, g))
    /\ UNCHANGED <<store, s3, clock, nwrites>>

\* ---------------------------------------------------------------- sharing
\* share_chat up to and including get_chat_by_id.
ShareGet(p, u, cid) ==
    /\ AcceptingWriter(p)
    /\ cid # NoChatId
    /\ LET g == get_chat_by_id(store, u, cid)
           r == [NewReq("share_chat", u, cid, <<>>, <<>>) EXCEPT
                    !.reads = 1, !.owners = OwnersOf(g)]
       IN  IF g.kind = "ok"
           THEN Step(p, [r EXCEPT !.pc = "share_put", !.chat_data = g.value])
           ELSE InFlight = {} /\ Step(p, Fail(r, g))
    /\ UNCHANGED <<store, s3, clock, nwrites>>

\* share_chat: build shared_data, put_object, return the share id.
SharePut(p) ==
    /\ MayStep(p)
    /\ rq[p].pc = "share_put"
    /\ s3' = PutObject(s3, rq[p].chat_id,
                       SharedData(rq[p].chat_data[1], clock, rq[p].user_id))
    /\ Step(p, Respond(rq[p], 200, [share_id |-> rq[p].chat_id], 0))
    /\ nwrites' = nwrites + 1
    /\ UNCHANGED <<store, clock>>

\* fetch_shared_chat: no credential is asked for; the object, or 404.
FetchShared(p, cid) ==
    /\ Accepting(p)
    /\ cid # NoChatId /\ cid # ""     \* a path parameter is never empty
    /\ LET got == GetObject(s3, cid)
           r == [NewReq("fetch_shared_chat", Anonymous, cid, <<>>, <<>>) EXCEPT
                    !.owners = {got[i].shared_by : i \in 1..Len(got)}]
       IN  IF got = <<>> THEN Step(p, Respond(r, 404, ErrorBody, 404))
           ELSE Step(p, Respond(r, 200, got[1], 0))
    /\ UNCHANGED <<store, s3, clock, nwrites>>

\* ---------------------------------------------------------- speech-to-text
AllowedAudio == {"audio/wav"}          \* one of allowed_types
ContentTypes == {"audio/wav", "text/plain"}
TranscribeOutcomes == {"text", "exception"}

\* speech_to_text: type check, empty check, transcription.
SpeechToText(p, content_type, empty, o) ==
    /\ Accepting(p)
    /\ LET r == NewReq("speech_to_text", Anonymous, NoChatId, <<>>, <<>>)
       IN  IF content_type \notin AllowedAudio THEN Step(p, Fail(r, Http(400)))
           ELSE IF empty THEN Step(p, Fail(r, Http(400)))
           ELSE IF o = "exception" THEN Step(p, Fail([r EXCEPT !.fault = TRUE], Exc))
           ELSE Step(p, Respond(r, 200, [transcription |-> AnswerText], 0))
    /\ UNCHANGED <<store, s3, clock, nwrites>>

\* --------------------------------------------------------------- delivery
\* The response goes to the caller and the worker is idle again.
Deliver(p) ==
    /\ rq[p].pc = "done"
    /\ Step(p, IdleReq)
    /\ UNCHANGED <<store, s3, clock, nwrites>>

\* ------------------------------------------------------------------ clock
Tick ==
    /\ Quiet
    /\ clock < MaxClock
    /\ clock' = clock + 1
    /\ UNCHANGED <<store, s3, rq, nwrites>>

\* ------------------------------------------------------------------- Next
Next ==
    \/ \E p \in Procs : AcceptingWriter(p) /\
          \E h \in AskHandlers, u \in Users, cid \in ClientChatIds(store), q \in Questions :
             AskValidate(p, h, u, cid, q)
    \/ \E p \in Procs : rq[p].pc = "generate" /\
          \E ot \in TranslateOutcomes(rq[p].handler),
             ors \in ResearchOutcomes(rq[p].handler),
             o \in GenOutcomes(rq[p].handler) : AskGenerate(p, ot, ors, o)
    \/ \E p \in Procs : SaveNew(p)
    \/ \E p \in Procs : SaveGet(p)
    \/ \E p \in Procs : SavePut(p)
    \/ \E p \in Procs : AcceptingWriter(p) /\
          \E u \in Users, cid \in ClientChatIds(store), q \in Questions :
             SaveChat(p, u, cid, q, AnswerText)
    \/ \E p \in Procs, u \in Users : ListChatTitles(p, u)
    \/ \E p \in Procs : Accepting(p) /\
          \E u \in Users, cid \in ClientChatIds(store) : GetChatDetail(p, u, cid)
    \/ \E p \in Procs : AcceptingWriter(p) /\
          \E u \in Users, cid \in ClientChatIds(store) : ShareGet(p, u, cid)
    \/ \E p \in Procs : SharePut(p)
    \/ \E p \in Procs : Accepting(p) /\ \E cid \in ClientChatIds(store) : FetchShared(p, cid)
    \/ \E p \in Procs : Accepting(p) /\
          \E ct \in ContentTypes, empty \in BOOLEAN, o \in TranscribeOutcomes :
             SpeechToText(p, ct, empty, o)
    \/ \E p \in Procs : Deliver(p)
    \/ Tick

Spec == Init /\ [][Next]_vars
SpecSeeded == InitSeeded /\ [][Next]_vars
SpecShared == InitShared /\ [][Next]_vars

\* ------------------------------------- context assembly on long records
\* A conversation of n question/answer pairs: the i-th question is i letters
\* long, so every turn is told from every other.
PairsConversation(n) ==
    [i \in 1..(2 * n) |->
        IF i % 2 = 1 THEN Turn("user", Chars((i + 1) \div 2, "q"), 0)
        ELSE Turn("assistant", Chars(i \div 2, "a"), 0)]

\* The record a create and n - 1 appends of one user leave.
LongItem(n) ==
    ChatItem("u1", "c1", Title(Chars(1, "q")), PairsConversation(n), 0, 0)

\* The service starts on a table with one conversation of 1..MaxPairs pairs.
InitContext ==
    /\ \E n \in 1..MaxPairs : store = PutItem(EmptyTable, LongItem(n))
    /\ s3 = EmptyBucket
    /\ clock = 0
    /\ rq = [p \in Procs |-> IdleReq]
    /\ nwrites = 0

\* save_chat requests come in and assemble their context.
NextContext ==
    \E p \in Procs : AcceptingWriter(p) /\
        \E u \in Users, cid \in ClientChatIds(store), q \in Questions :
            SaveChat(p, u, cid, q, AnswerText)

SpecContext == InitContext /\ [][NextContext]_vars

\* ------------------------------------------ titles of questions of any length
\* Questions of 0, 1, 49, 50, 51 and 52 characters; the characters alternate,
\* so a title that is not a prefix of its question shows.
Letters(n) == [i \in 1..n |-> IF i % 2 = 1 THEN "x" ELSE "y"]
TitleQuestions ==
    {Letters(n) : n \in {0, 1} \cup ((TitleLen - 1)..(TitleLen + 2))}

\* chat-history/save requests without chat_id create conversations.
NextTitle ==
    \/ \E p \in Procs : AcceptingWriter(p) /\
          \E u \in Users, q \in TitleQuestions :
             SaveChat(p, u, NoChatId, q, AnswerText)
    \/ \E p \in Procs : SaveNew(p)
    \/ \E p \in Procs : Deliver(p)

SpecTitle == Init /\ [][NextTitle]_vars

\* =============================================================== claims
Done(p) == rq[p].pc = "done"
IsAsk(p) == rq[p].handler \in AskHandlers

\* The key under which the request's chat_id names a record of its caller.
NamedKey(p) == <<rq[p].user_id, UUIDParse(rq[p].chat_id)>>

\* C1: a request of chat_basic, chat_advanced or chat_hinglish whose
\* generation failed (the gateway raised in the translation or completion
\* call, no choices, an empty answer, an answer of chat_basic that is no JSON
\* object) has ended with an error and has written nothing to the table.
C1_GenFailureWritesNothing ==
    \A p \in Procs :
        rq[p].genfail =>
            /\ Done(p)
            /\ rq[p].status = 500
            /\ rq[p].writes = 0
            /\ rq[p].put = <<>>

\* A generation failed in a request that continues a stored conversation.
C1_Witness ==
    \E p \in Procs :
        /\ Done(p) /\ IsAsk(p) /\ rq[p].genfail
        /\ rq[p].reads = 2
        /\ NamedKey(p) \in DOMAIN store
        /\ Len(store[NamedKey(p)].conversation) = 2

\* C2: an HTTPException that reaches the boundary of a handler reaches the
\* caller with its own status.
C2_ClassifiedStatusPreserved ==
    \A p \in Procs :
        Done(p) /\ rq[p].raised # 0 => rq[p].status = rq[p].raised

\* C3: a request of chat_basic, chat_advanced, chat_hinglish or save_chat
\* whose chat_id is no UUID ends with status 400 and has neither read nor
\* written the table.
C3_MalformedIdIsBadRequestWithoutAccess ==
    \A p \in Procs :
        /\ Done(p)
        /\ rq[p].handler \in AskHandlers \cup {"save_chat"}
        /\ rq[p].chat_id # NoChatId
        /\ UUIDParse(rq[p].chat_id) = Invalid
        => /\ rq[p].status = 400
           /\ rq[p].reads = 0
           /\ rq[p].writes = 0

\* C4: the set of keys of the table grows only in the step of a request
\* without chat_id, by exactly one key, whose chat_id no stored key has.
C4_OnlyRequestsWithoutIdCreate ==
    [][ DOMAIN store' # DOMAIN store =>
          /\ DOMAIN store \subseteq DOMAIN store'
          /\ Cardinality(DOMAIN store' \ DOMAIN store) = 1
          /\ \A k \in DOMAIN store' \ DOMAIN store : k[2] \notin UsedIds(store)
          /\ \E p \in Procs :
                /\ rq[p].pc # "done" /\ rq'[p].pc = "done"
                /\ rq[p].chat_id = NoChatId ]_vars

\* C5: a request of get_chat_detail, save_chat or an ask handler whose
\* chat_id is a UUID under which its caller has no record ends with a
\* not-found-class client error (404 or 400).
C5_UnknownIdIsNotFound ==
    \A p \in Procs :
        /\ Done(p)
        /\ rq[p].handler \in AskHandlers \cup {"save_chat", "get_chat_detail"}
        /\ rq[p].chat_id # NoChatId
        /\ UUIDParse(rq[p].chat_id) # Invalid
        /\ NamedKey(p) \notin DOMAIN store
        => rq[p].status \in {400, 404}

\* C6: no step changes the title or the created_at of a stored record.
C6_TitleAndCreatedAtFixed ==
    [][ \A k \in DOMAIN store :
          /\ k \in DOMAIN store'
          /\ store'[k].title = store[k].title
          /\ store'[k].created_at = store[k].created_at ]_vars

\* Two appends to the one stored record overlapped: both read its two turns
\* and both wrote, the later one after the clock had advanced.
C6_Witness ==
    /\ nwrites = 2
    /\ DOMAIN s3 = {}
    /\ DOMAIN store = {<<SeedItem.user_id, SeedItem.chat_id>>}
    /\ \E k \in DOMAIN store :
          /\ Len(store[k].conversation) = 4
          /\ store[k].updated_at > store[k].created_at
          /\ store[k].title = SeedItem.title

\* C7: a request that appended has written, under the key of the record it
\* read, the turns it read followed by a user turn with its question and an
\* assistant turn with its answer.
C7_AppendsQuestionThenAnswer ==
    \A p \in Procs :
        Done(p) /\ rq[p].writes = 1 /\ rq[p].chat_data # <<>> =>
            LET read == rq[p].chat_data[1].conversation
                key == <<rq[p].user_id, rq[p].chat_data[1].chat_id>>
                written == store[key].conversation
                n == Len(read)
            IN  /\ Len(written) = n + 2
                /\ SubSeq(written, 1, n) = read
                /\ written[n + 1].role = "user"
                /\ written[n + 1].content = rq[p].question
                /\ written[n + 2].role = "assistant"
                /\ written[n + 2].content = rq[p].answer

\* An ask handler appended to a conversation that already had four turns.
C7_Witness ==
    \E p \in Procs :
        /\ Done(p) /\ IsAsk(p) /\ rq[p].status = 200 /\ rq[p].writes = 1
        /\ rq[p].chat_data # <<>>
        /\ Len(rq[p].chat_data[1].conversation) = 4
        /\ Len(store[NamedKey(p)].conversation) = 6

\* C8: every stored conversation has an even number of turns.
C8_EvenTurns ==
    \A k \in DOMAIN store : Len(store[k].conversation) % 2 = 0

\* A generation failed in a request on a conversation to which another
\* request appended.
C8_Witness ==
    \E p \in Procs :
        /\ Done(p) /\ rq[p].genfail /\ rq[p].reads = 2
        /\ NamedKey(p) \in DOMAIN store
        /\ Len(store[NamedKey(p)].conversation) = 4

\* C9 as claimed: no response carries data of a record of another user.
C9_NoCrossUserRead ==
    \A p \in Procs : rq[p].owners \subseteq {rq[p].user_id}

\* C9: in every handler but fetch_shared_chat the items read belong to the
\* caller; fetch_shared_chat returns a snapshot that the owner of a stored
\* record published under that record's chat_id.
C9_CrossUserOnlyBySharedSnapshot ==
    \A p \in Procs :
        /\ rq[p].handler # "fetch_shared_chat" =>
              rq[p].owners \subseteq {rq[p].user_id}
        /\ Done(p) /\ rq[p].handler = "fetch_shared_chat" /\ rq[p].status = 200 =>
              /\ rq[p].body.chat_id = rq[p].chat_id
              /\ <<rq[p].body.shared_by, rq[p].body.chat_id>> \in DOMAIN store

\* A user asked for the record of another user by its chat_id and got 404.
C9_Witness ==
    \E p \in Procs :
        /\ Done(p) /\ rq[p].handler = "get_chat_detail" /\ rq[p].status = 404
        /\ \E k \in DOMAIN store : k[2] = rq[p].chat_id /\ k[1] # rq[p].user_id

\* C10: an ask handler that succeeded returns the chat_id, title and
\* updated_at of the record it wrote.
C10_AskReturnsRecordSummary ==
    \A p \in Procs :
        Done(p) /\ IsAsk(p) /\ rq[p].status = 200 =>
            /\ rq[p].put # <<>>
            /\ {"chat_id", "title", "updated_at"} \subseteq DOMAIN rq[p].body
            /\ rq[p].body.chat_id = rq[p].put[1].chat_id
            /\ rq[p].body.title = rq[p].put[1].title
            /\ rq[p].body.updated_at = rq[p].put[1].updated_at

\* The key of the record the table starts with under SpecSeeded.
SeedKey == <<SeedItem.user_id, SeedItem.chat_id>>

\* C11: when two appends to one record both read it before either wrote it,
\* both succeed, and afterwards the record holds the turns they read followed
\* by the pair of the last writer only: the pair of the first writer is gone.
\* (Started from the one seed record: two writes, no new key and no snapshot
\* mean two appends to it; the request that just wrote had read the two seed
\* turns, so it read before the first append was written.)
C11_LostUpdateLastWriterWins ==
    \A p \in Procs :
        /\ Done(p) /\ rq[p].writes = 1 /\ rq[p].status = 200
        /\ nwrites = 2 /\ DOMAIN s3 = {} /\ DOMAIN store = {SeedKey}
        /\ rq[p].chat_data # <<>>
        /\ rq[p].chat_data[1].conversation = SeedItem.conversation
        => /\ Len(store[SeedKey].conversation) = 4
           /\ store[SeedKey] = rq[p].put[1]
           /\ store[SeedKey].conversation[3].content = rq[p].question
           /\ store[SeedKey].conversation[4].content = rq[p].answer

\* The second of two overlapping appends has just written its short question:
\* the record has four turns after two appends, none of them a long question.
C11_Witness ==
    \E p \in Procs :
        /\ Done(p) /\ rq[p].writes = 1 /\ rq[p].status = 200
        /\ nwrites = 2 /\ DOMAIN s3 = {} /\ DOMAIN store = {SeedKey}
        /\ rq[p].chat_data # <<>>
        /\ rq[p].chat_data[1].conversation = SeedItem.conversation
        /\ rq[p].question = ShortQuestion
        /\ Len(store[SeedKey].conversation) = 4
        /\ \A i \in 1..4 : store[SeedKey].conversation[i].content # LongQuestion

\* C12: share_chat stores under the public key the title and the turns of the
\* record as its request read it; fetch_shared_chat returns the stored object
\* as it is; and a step that writes the table (a create or an append) leaves
\* every stored snapshot as it was.
C12_SnapshotIsRecordAtShareTime ==
    /\ [](\A p \in Procs :
            Done(p) /\ rq[p].handler = "share_chat" /\ rq[p].status = 200 =>
                /\ rq[p].chat_id \in DOMAIN s3
                /\ s3[rq[p].chat_id].title = rq[p].chat_data[1].title
                /\ s3[rq[p].chat_id].conversation = rq[p].chat_data[1].conversation)
    /\ [](\A p \in Procs :
            Done(p) /\ rq[p].handler = "fetch_shared_chat" /\ rq[p].status = 200 =>
                /\ rq[p].chat_id \in DOMAIN s3
                /\ rq[p].body = s3[rq[p].chat_id])
    /\ [][store' # store => s3' = s3]_vars

\* A fetch returned the two turns shared although the record has four by now.
C12_Witness ==
    \E p \in Procs :
        /\ Done(p) /\ rq[p].handler = "fetch_shared_chat" /\ rq[p].status = 200
        /\ Len(rq[p].body.conversation) = 2
        /\ <<rq[p].body.shared_by, rq[p].chat_id>> \in DOMAIN store
        /\ Len(store[<<rq[p].body.shared_by, rq[p].chat_id>>].conversation) = 4

\* C13: no step changes the title or the turns of a snapshot that exists.
C13_SnapshotImmutable ==
    [][ \A c \in DOMAIN s3 :
          /\ c \in DOMAIN s3'
          /\ s3'[c].title = s3[c].title
          /\ s3'[c].conversation = s3[c].conversation ]_vars

\* C14: the context save_chat assembled for a stored conversation is, in
\* stored order, "User: " + content of exactly the turns with role user
\* among its last min(n, 10) turns.
C14_ContextIsUserTurnsOfLastTen ==
    \A p \in Procs :
        /\ rq[p].handler = "save_chat" /\ rq[p].pc = "save_get"
        /\ <<rq[p].user_id, rq[p].chat_id>> \in DOMAIN store
        => LET conv == store[<<rq[p].user_id, rq[p].chat_id>>].conversation
               n == Len(conv)
               first == IF n > 10 THEN n - 9 ELSE 1
               idx == {i \in first..n : conv[i].role = "user"}
               nth(j) == CHOOSE i \in idx : Cardinality({k \in idx : k < i}) = j - 1
           IN  /\ Len(rq[p].previous_convo) = Cardinality(idx)
               /\ \A j \in 1..Cardinality(idx) :
                     rq[p].previous_convo[j] =
                         <<"U", "s", "e", "r", ":", " ">> \o conv[nth(j)].content

\* save_chat continued [U1,A1,...,U6,A6]: the context is U2..U6.
C14_Witness ==
    \E p \in Procs :
        /\ rq[p].handler = "save_chat" /\ rq[p].pc = "save_get"
        /\ <<rq[p].user_id, rq[p].chat_id>> \in DOMAIN store
        /\ Len(store[<<rq[p].user_id, rq[p].chat_id>>].conversation) = 12
        /\ Len(rq[p].previous_convo) = 5
        /\ rq[p].previous_convo[1] = <<"U", "s", "e", "r", ":", " ", "q", "q">>
        /\ Len(rq[p].previous_convo[5]) = 12

C16_TitleIsFirstFiftyPlusMarker ==
    /\ \A k \in DOMAIN store :
          LET q == store[k].conversation[1].content
              t == store[k].title
              n == Len(q)
          IN  /\ Len(t) = IF n > 50 THEN 53 ELSE n
              /\ \A i \in 1..Len(t) :
                    t[i] = IF i <= 50 THEN q[i] ELSE "."
    /\ \A p \in Procs :
          /\ Done(p) /\ rq[p].handler = "save_chat"
          /\ rq[p].status = 200 /\ rq[p].chat_id = NoChatId
          => /\ rq[p].body.title = rq[p].put[1].title
             /\ rq[p].put[1].conversation[1].content = rq[p].question
             /\ store[<<rq[p].user_id, rq[p].body.chat_id>>] = rq[p].put[1]

\* A question of 50 characters got a title of 50, one of 51 a title of 53.
C16_Witness ==
    /\ \E k \in DOMAIN store :
          Len(store[k].conversation[1].content) = 50 /\ Len(store[k].title) = 50
    /\ \E p \in Procs :
          /\ Done(p) /\ rq[p].handler = "save_chat" /\ rq[p].status = 200
          /\ Len(rq[p].question) = 51 /\ Len(rq[p].body.title) = 53

\* C17: in every stored record the timestamps of the turns never decrease
\* along the conversation.
C17_TurnsChronological ==
    \A k \in DOMAIN store :
        \A i \in 1..(Len(store[k].conversation) - 1) :
            store[k].conversation[i].timestamp
                <= store[k].conversation[i + 1].timestamp

\* C19: no write stores in a record an updated_at earlier than the one the
\* record had before the write.
C19_UpdatedAtNeverDecreases ==
    [][ \A k \in DOMAIN store :
          k \in DOMAIN store' /\ store'[k].updated_at >= store[k].updated_at ]_vars

\* C18: a request of an ask handler goes from validation to generation (the
\* step that assembles the context and calls the gateway) to the append and
\* never back.  It reaches generation only if its chat_id is absent or names
\* a record of its caller; a request that failed validation ends there, with
\* no generation outcome.  It enters save_or_update_chat, and writes, only
\* after a generation that did not fail.
C18_ValidateGenerateAppend ==
    [][ \A p \in Procs :
          rq'[p].handler \in AskHandlers /\ rq'[p] # rq[p] =>
            /\ <<rq[p].pc, rq'[p].pc>> \in
                  { <<"idle", "generate">>, <<"idle", "done">>,
                    <<"generate", "save_new">>, <<"generate", "save_get">>,
                    <<"generate", "done">>,
                    <<"save_get", "save_put">>, <<"save_get", "done">>,
                    <<"save_new", "done">>, <<"save_put", "done">> }
            /\ rq'[p].pc = "generate" =>
                  \/ rq'[p].chat_id = NoChatId
                  \/ /\ UUIDParse(rq'[p].chat_id) # Invalid
                     /\ <<rq'[p].user_id, UUIDParse(rq'[p].chat_id)>> \in DOMAIN store
            /\ rq[p].pc = "idle" /\ rq'[p].pc = "done" =>
                  /\ rq'[p].raised = 400
                  /\ ~rq'[p].genfail /\ ~rq'[p].fault
                  /\ rq'[p].answer = <<>>
            /\ rq'[p].pc \in {"save_new", "save_get"} =>
                  rq[p].pc = "generate" /\ ~rq'[p].genfail
            /\ rq'[p].writes > rq[p].writes =>
                  /\ rq[p].pc \in {"save_new", "save_put"}
                  /\ ~rq[p].genfail
                  /\ rq'[p].put # <<>>
                  /\ store'[<<rq[p].user_id, rq'[p].put[1].chat_id>>] = rq'[p].put[1] ]_vars

\* An ask handler validated its chat_id, read the context, generated and
\* appended: three reads of the table, then one write.
C18_Witness ==
    \E p \in Procs :
        /\ Done(p) /\ IsAsk(p) /\ rq[p].status = 200
        /\ rq[p].reads = 3 /\ rq[p].writes = 1
        /\ rq[p].chat_data # <<>>
        /\ rq[p].answer = AnswerText

====
